---- MODULE Spec2Model ----
(***************************************************************************)
(* The schema type resolver of generator/types.go (go-swagger).            *)
(*                                                                         *)
(* ResolveSchema is a recursive function over a swagger document.  It is   *)
(* modelled as a machine with an explicit call stack: every activation of  *)
(* ResolveSchema is a frame, a recursive call pushes a frame, a return     *)
(* pops it and leaves the returned (resolvedType, error) pair in `ret`.    *)
(* A caller resolves one schema (`root`) of a document under the four      *)
(* (isAnonymous, isRequired) flag pairs and keeps the four outcomes in     *)
(* `results`.                                                              *)
(*                                                                         *)
(* Go values: a nil pointer / nil interface / empty map is << >>;  a       *)
(* non-nil *float64 or *int64 or interface{} value v is <<v>>;  a non-nil  *)
(* *spec.Schema or *resolvedType is the record itself.  Strings are TLA+   *)
(* strings, string concatenation is \o.                                    *)
(***************************************************************************)
EXTENDS Integers, Sequences, FiniteSets, TLC

VARIABLES t, root, calls, stack, ret, results

vars == <<t, root, calls, stack, ret, results>>

Nil == << >>

\* The deepest call stack the model follows (Go's stack is finite as well).
MaxDepth == 7

-----------------------------------------------------------------------------
(* Constants of the source *)

iface == "interface{}"
array == "array"
file == "file"
number == "number"
integer == "integer"
boolean == "boolean"
str == "string"
object == "object"
binary == "binary"
xNullable == "x-nullable"
xIsNullable == "x-isnullable"
xGoName == "x-go-name"

-----------------------------------------------------------------------------
(* The format table (generator package, outside types.go) *)

\* typeMapping: swagger type or dash-less format -> Go type
typeMapping ==
    [k \in {"number", "integer", "boolean", "string", "file",
            "int32", "date", "datetime", "binary"} |->
        CASE k = "number"   -> "float64"
          [] k = "integer"  -> "int64"
          [] k = "boolean"  -> "bool"
          [] k = "string"   -> "string"
          [] k = "file"     -> "runtime.File"
          [] k = "int32"    -> "int32"
          [] k = "date"     -> "strfmt.Date"
          [] k = "datetime" -> "strfmt.DateTime"
          [] k = "binary"   -> "io.ReadCloser"]

\* customFormatters: the Go types that need custom (de)serialization
customFormatters == {"strfmt.Date", "strfmt.DateTime"}

-----------------------------------------------------------------------------
(* Library functions the resolver calls *)

\* strings.Replace(s, "-", "", -1) on the format strings of the model
RemoveDashes(s) ==
    CASE s = "date-time" -> "datetime"
      [] OTHER -> s

\* swag.ToGoName on the names of the model: the exported Go identifier (a name
\* that is one already, and the empty name, come back as they are)
ToGoName(nm) ==
    CASE nm = "a"      -> "A"
      [] nm = "b"      -> "B"
      [] nm = "weight" -> "Weight"
      [] nm = "missing" -> "Missing"
      [] OTHER         -> nm

\* swag.IsZero on a decoded JSON default value (kept as its JSON text)
IsZero(v) == v \in {"0", "\"\"", "false"}

\* filepath.Base of a reference's fragment: its last path element
Base(ref) == ref[Len(ref)]

\* strings.HasPrefix(s, "*")
HasStarPrefix(s) == Len(s) > 0 /\ SubSeq(s, 1, 1) = "*"

\* spec.ResolveRef: the referenced definition, or an error
ResolveRef(doc, ref) ==
    IF Len(ref) = 2 /\ ref[1] = "definitions" /\ ref[2] \in DOMAIN doc
    THEN [schema |-> doc[ref[2]], err |-> ""]
    ELSE [schema |-> Nil, err |-> "object has no key"]

-----------------------------------------------------------------------------
(* Data: spec.Schema and resolvedType *)

\* A spec.Schema with every field at its Go zero value
EmptySchema ==
    [Ref |-> << >>, Type |-> << >>, Format |-> "", Properties |-> << >>,
     Items |-> Nil, AdditionalItems |-> Nil, AdditionalProperties |-> Nil,
     AllOf |-> << >>, Discriminator |-> "", Default |-> << >>,
     ReadOnly |-> FALSE, Minimum |-> << >>, Maximum |-> << >>,
     MinLength |-> << >>, Extensions |-> << >>]

\* resolvedType{} : the zero value
ZeroResolvedType ==
    [IsAnonymous |-> FALSE, IsArray |-> FALSE, IsMap |-> FALSE,
     IsInterface |-> FALSE, IsPrimitive |-> FALSE, IsCustomFormatter |-> FALSE,
     IsAliased |-> FALSE, IsNullable |-> FALSE, IsStream |-> FALSE,
     HasDiscriminator |-> FALSE, IsTuple |-> FALSE, HasAdditionalItems |-> FALSE,
     IsComplexObject |-> FALSE, IsBaseType |-> FALSE,
     GoType |-> "", AliasedType |-> "", SwaggerType |-> "", SwaggerFormat |-> "",
     ElemType |-> Nil]

BoolValue(b) == [kind |-> "bool", b |-> b]
StringValue(s) == [kind |-> "string", s |-> s]

-----------------------------------------------------------------------------
(* The nullability rules *)

boolExtension(ext, key) ==
    IF key \in DOMAIN ext /\ ext[key].kind = "bool" THEN <<ext[key].b>> ELSE Nil

nullableExtension(ext) ==
    IF ext = << >> THEN Nil
    ELSE IF boolExtension(ext, xNullable) # Nil THEN boolExtension(ext, xNullable)
    ELSE boolExtension(ext, xIsNullable)

nullableBool(schema, isRequired) ==
    IF nullableExtension(schema.Extensions) # Nil
    THEN nullableExtension(schema.Extensions)[1]
    ELSE LET required == isRequired /\ schema.Default = Nil /\ ~schema.ReadOnly
             optional == ~isRequired /\ (schema.Default # Nil \/ schema.ReadOnly)
         IN  required \/ optional

nullableNumber(schema, isRequired) ==
    IF nullableExtension(schema.Extensions) # Nil
    THEN nullableExtension(schema.Extensions)[1]
    ELSE LET hasDefault == schema.Default # Nil /\ ~IsZero(schema.Default[1])
             hasMin == schema.Minimum # Nil
             hasMax == schema.Maximum # Nil
             isMin == hasMin /\ schema.Minimum[1] # 0
             bcMin == hasMin /\ schema.Minimum[1] = 0
             isMax == ~hasMin /\ (hasMax /\ schema.Maximum[1] # 0)
             bcMax == hasMax /\ schema.Maximum[1] = 0
             isMinMax == hasMin /\ hasMax /\ schema.Minimum[1] < schema.Maximum[1]
             bcMinMax == hasMin /\ hasMax
                           /\ (schema.Minimum[1] < 0 /\ 0 < schema.Maximum[1])
         IN  ~schema.ReadOnly
               /\ (isRequired \/ (hasDefault /\ ~(isMin \/ isMax \/ isMinMax))
                     \/ bcMin \/ bcMax \/ bcMinMax)

nullableString(schema, isRequired) ==
    IF nullableExtension(schema.Extensions) # Nil
    THEN nullableExtension(schema.Extensions)[1]
    ELSE LET hasDefault == schema.Default # Nil /\ ~IsZero(schema.Default[1])
             isMin == schema.MinLength # Nil /\ schema.MinLength[1] # 0
             bcMin == schema.MinLength # Nil /\ schema.MinLength[1] = 0
         IN  ~schema.ReadOnly /\ (isRequired \/ (hasDefault /\ ~isMin) \/ bcMin)

nullableStrfmt(schema, isRequired) ==
    LET notBinary == schema.Format # binary IN
    IF nullableExtension(schema.Extensions) # Nil /\ notBinary
    THEN nullableExtension(schema.Extensions)[1]
    ELSE LET hasDefault == schema.Default # Nil /\ ~IsZero(schema.Default[1])
             nullable == ~schema.ReadOnly /\ (isRequired \/ hasDefault)
         IN  notBinary /\ nullable

checkIsNullable(extension, schema) ==
    LET found == extension \in DOMAIN schema.Extensions
        cast == found /\ schema.Extensions[extension].kind = "bool"
        nullable == cast /\ schema.Extensions[extension].b
    IN  (found /\ cast /\ nullable) \/ Cardinality(DOMAIN schema.Properties) > 0

isNullable(schema) ==
    checkIsNullable(xIsNullable, schema) \/ checkIsNullable(xNullable, schema)

IsNullable(schema) == isNullable(schema) \/ Len(schema.AllOf) > 0

firstType(schema) ==
    IF Len(schema.Type) = 0 \/ schema.Type[1] = "" THEN object ELSE schema.Type[1]

-----------------------------------------------------------------------------
(* The resolver *)

\* newTypeResolver: the known definitions are the definition names and their
\* x-go-name overrides
newTypeResolver(pkg, doc) ==
    [Doc |-> doc, ModelsPackage |-> pkg, ModelName |-> "",
     KnownDefs |-> DOMAIN doc \cup
        {doc[k].Extensions[xGoName].s :
            k \in {d \in DOMAIN doc : xGoName \in DOMAIN doc[d].Extensions}}]

goTypeName(tr, nm) ==
    IF tr.ModelsPackage = "" THEN ToGoName(nm)
    ELSE IF nm \in tr.KnownDefs THEN tr.ModelsPackage \o "." \o ToGoName(nm)
    ELSE ToGoName(nm)

\* inferAliasing with its assignments in the wrong order: the type name is
\* overwritten before it is saved as the aliased type
inferAliasing_Mutant(tr, result, schema, isAnonymous, isRequired) ==
    IF ~isAnonymous /\ tr.ModelName # ""
    THEN [result EXCEPT !.AliasedType = goTypeName(tr, tr.ModelName),
                        !.IsAliased = TRUE,
                        !.GoType = goTypeName(tr, tr.ModelName)]
    ELSE result

inferAliasing(tr, result, schema, isAnonymous, isRequired) ==
    IF ~isAnonymous /\ tr.ModelName # ""
    THEN [result EXCEPT !.AliasedType = result.GoType,
                        !.IsAliased = TRUE,
                        !.GoType = goTypeName(tr, tr.ModelName)]
    ELSE result

\* resolveFormat: (returns, result, err)
resolveFormat(tr, schema, isAnonymous, isRequired) ==
    LET schFmt == RemoveDashes(schema.Format) IN
    IF schema.Format # "" /\ schFmt \in DOMAIN typeMapping
    THEN LET tpe == typeMapping[schFmt]
             swaggerType == IF Len(schema.Type) > 0 THEN schema.Type[1] ELSE str
             r1 == [ZeroResolvedType EXCEPT !.SwaggerType = swaggerType,
                                            !.SwaggerFormat = schema.Format,
                                            !.GoType = tpe]
             r2 == inferAliasing(tr, r1, schema, isAnonymous, isRequired)
             nullable ==
                 CASE swaggerType = str -> nullableStrfmt(schema, isRequired)
                   [] swaggerType \in {number, integer} ->
                          nullableNumber(schema, isRequired)
                   [] OTHER -> IsNullable(schema)
         IN  [returns |-> TRUE,
              result |-> [r2 EXCEPT !.IsPrimitive = (schFmt # binary),
                                    !.IsStream = (schFmt = binary),
                                    !.IsCustomFormatter = (tpe \in customFormatters),
                                    !.IsNullable = nullable],
              err |-> ""]
    ELSE [returns |-> FALSE, result |-> ZeroResolvedType, err |-> ""]

\* resolveSchemaRef keeping the nullability the recursive call computed,
\* which depends on the referring site's isRequired
resolveSchemaRef_Mutant(tr, schema, isRequired, res) ==
    LET ref == ResolveRef(tr.Doc, schema.Ref).schema
        nm == IF xGoName \in DOMAIN ref.Extensions
              THEN ref.Extensions[xGoName].s
              ELSE Base(schema.Ref)
    IN  IF res.err # ""
        THEN [result |-> ZeroResolvedType, err |-> res.err]
        ELSE [result |-> [res.result EXCEPT
                              !.GoType = goTypeName(tr, nm),
                              !.HasDiscriminator = (ref.Discriminator # "")],
              err |-> ""]

\* resolveSchemaRef after its recursive ResolveSchema(ref, false, isRequired)
\* has returned res: the result is renamed and takes the referenced schema's
\* discriminator and nullability
resolveSchemaRef(tr, schema, isRequired, res) ==
    LET ref == ResolveRef(tr.Doc, schema.Ref).schema
        nm == IF xGoName \in DOMAIN ref.Extensions
              THEN ref.Extensions[xGoName].s
              ELSE Base(schema.Ref)
    IN  IF res.err # ""
        THEN [result |-> ZeroResolvedType, err |-> res.err]
        ELSE [result |-> [res.result EXCEPT
                              !.GoType = goTypeName(tr, nm),
                              !.HasDiscriminator = (ref.Discriminator # ""),
                              !.IsNullable = IsNullable(ref)],
              err |-> ""]

\* ResolveSchema when resolveSchemaRef says it returns
returnsRef(out, isAnonymous) ==
    IF ~isAnonymous
    THEN [out EXCEPT !.result.IsMap = FALSE, !.result.IsComplexObject = TRUE]
    ELSE out

\* resolveArray up to the test of schema.Items
resolveArrayHead(schema) ==
    [ZeroResolvedType EXCEPT
        !.IsArray = TRUE,
        !.IsNullable = FALSE,
        !.HasAdditionalItems =
            IF schema.AdditionalItems # Nil
            THEN schema.AdditionalItems.Allows \/ schema.AdditionalItems.Schema # Nil
            ELSE FALSE]

\* resolveArray without an item schema, or with a tuple of item schemas
resolveArrayNoItems(tr, schema, isAnonymous, isRequired) ==
    LET result == resolveArrayHead(schema) IN
    IF schema.Items = Nil
    THEN inferAliasing(tr, [result EXCEPT !.GoType = "[]" \o iface,
                                          !.SwaggerType = array,
                                          !.SwaggerFormat = ""],
                       schema, isAnonymous, isRequired)
    ELSE inferAliasing(tr, [result EXCEPT !.IsArray = FALSE,
                                          !.IsTuple = TRUE,
                                          !.SwaggerType = array,
                                          !.SwaggerFormat = ""],
                       schema, isAnonymous, isRequired)

\* resolveArray after ResolveSchema(schema.Items.Schema, true, false) returned
resolveArrayItems(tr, result, schema, isAnonymous, isRequired, res) ==
    IF res.err # ""
    THEN [result |-> result, err |-> res.err]
    ELSE LET rt == [res.result EXCEPT
                       !.IsNullable = IsNullable(schema.Items.Schema)
                                        /\ ~res.result.HasDiscriminator]
             goType == IF rt.IsNullable /\ ~HasStarPrefix(rt.GoType)
                       THEN "[]*" \o rt.GoType
                       ELSE "[]" \o rt.GoType
         IN  [result |-> inferAliasing(tr,
                            [result EXCEPT !.GoType = goType,
                                           !.ElemType = rt,
                                           !.SwaggerType = array,
                                           !.SwaggerFormat = ""],
                            schema, isAnonymous, isRequired),
              err |-> ""]

\* resolveObject up to the test of schema.AllOf
resolveObjectHead(tr, schema, isAnonymous) ==
    LET r1 == [ZeroResolvedType EXCEPT !.IsAnonymous = isAnonymous,
                                       !.IsBaseType = (schema.Discriminator # "")]
    IN  IF ~isAnonymous
        THEN [r1 EXCEPT !.SwaggerType = object,
                        !.GoType = goTypeName(tr, tr.ModelName)]
        ELSE r1

\* resolveObject of a composed schema (allOf)
resolveObjectAllOf(tr, schema, isAnonymous) ==
    [resolveObjectHead(tr, schema, isAnonymous) EXCEPT
        !.GoType = goTypeName(tr, tr.ModelName),
        !.IsComplexObject = TRUE,
        !.IsNullable = \E i \in DOMAIN schema.AllOf : IsNullable(schema.AllOf[i]),
        !.SwaggerType = object]

\* resolveObject from the test of schema.Properties to that of
\* schema.AdditionalProperties
resolveObjectProperties(tr, schema, isAnonymous) ==
    LET result == resolveObjectHead(tr, schema, isAnonymous) IN
    IF Cardinality(DOMAIN schema.Properties) > 0
    THEN [result EXCEPT !.IsNullable = IsNullable(schema),
                        !.IsComplexObject = TRUE]
    ELSE result

\* resolveObject marking every schema with additional properties as a map,
\* declared properties or not
resolveObjectAdditional_Mutant(tr, result, schema, isAnonymous, res) ==
    IF res.err # ""
    THEN [result |-> result, err |-> res.err]
    ELSE LET et == [res.result EXCEPT
                       !.IsNullable = IsNullable(schema.AdditionalProperties.Schema)]
             goType == IF et.IsNullable
                       THEN "map[string]*" \o et.GoType
                       ELSE "map[string]" \o et.GoType
             r1 == [result EXCEPT !.IsMap = TRUE,
                                  !.SwaggerType = object,
                                  !.GoType = goType]
             r2 == inferAliasing(tr, r1, schema, isAnonymous, FALSE)
         IN  [result |-> [r2 EXCEPT !.ElemType = et], err |-> ""]

\* resolveObject after ResolveSchema(schema.AdditionalProperties.Schema, true,
\* false) returned
resolveObjectAdditional(tr, result, schema, isAnonymous, res) ==
    IF res.err # ""
    THEN [result |-> result, err |-> res.err]
    ELSE LET et == [res.result EXCEPT
                       !.IsNullable = IsNullable(schema.AdditionalProperties.Schema)]
             goType == IF et.IsNullable
                       THEN "map[string]*" \o et.GoType
                       ELSE "map[string]" \o et.GoType
             r1 == [result EXCEPT !.IsMap = ~result.IsComplexObject,
                                  !.SwaggerType = object,
                                  !.GoType = goType]
             r2 == inferAliasing(tr, r1, schema, isAnonymous, FALSE)
         IN  [result |-> [r2 EXCEPT !.ElemType = et], err |-> ""]

\* resolveObject without composition and without additional properties
resolveObjectPlain(tr, schema, isAnonymous) ==
    LET result == resolveObjectProperties(tr, schema, isAnonymous) IN
    IF Cardinality(DOMAIN schema.Properties) > 0
    THEN result
    ELSE [result EXCEPT !.GoType = iface,
                        !.IsMap = ~result.IsComplexObject,
                        !.SwaggerType = object,
                        !.IsNullable = FALSE,
                        !.IsInterface = (Cardinality(DOMAIN schema.Properties) = 0)]

\* ResolveSchema, case object: the discriminator flag is set on what
\* resolveObject returned; an error comes with resolvedType{}
objectReturn(schema, out) ==
    IF out.err # ""
    THEN [result |-> ZeroResolvedType, err |-> out.err]
    ELSE [result |-> [out.result EXCEPT
                         !.HasDiscriminator = (schema.Discriminator # "")],
          err |-> ""]

\* ResolveSchema, cases file, number, integer, boolean
resolvePrimitive(tr, schema, isAnonymous, isRequired) ==
    LET tpe == firstType(schema)
        r0 == [ZeroResolvedType EXCEPT
                  !.IsNullable = isNullable(schema) \/ isRequired,
                  !.GoType = typeMapping[tpe],
                  !.SwaggerType = tpe]
        r1 == inferAliasing(tr, r0, schema, isAnonymous, isRequired)
    IN  CASE tpe = boolean ->
                [r1 EXCEPT !.IsPrimitive = TRUE,
                           !.IsCustomFormatter = FALSE,
                           !.IsNullable = nullableBool(schema, isRequired)]
          [] tpe \in {number, integer} ->
                [r1 EXCEPT !.IsPrimitive = TRUE,
                           !.IsCustomFormatter = FALSE,
                           !.IsNullable = nullableNumber(schema, isRequired)]
          [] OTHER -> r1

\* ResolveSchema, case string
resolveString(tr, schema, isAnonymous, isRequired) ==
    LET r0 == [ZeroResolvedType EXCEPT
                  !.IsNullable = isNullable(schema) \/ isRequired,
                  !.GoType = str,
                  !.SwaggerType = str]
        r1 == inferAliasing(tr, r0, schema, isAnonymous, isRequired)
    IN  [r1 EXCEPT !.IsPrimitive = TRUE,
                   !.IsNullable = nullableString(schema, isRequired)]

\* ResolveSchema, default case: the error comes with the result as it stands
resolveUnresolvable(schema, isRequired) ==
    [result |-> [ZeroResolvedType EXCEPT
                    !.IsNullable = isNullable(schema) \/ isRequired],
     err |-> "unresolvable"]

-----------------------------------------------------------------------------
(* The inputs: schemas, documents and resolvers *)

Prim(tn) == [EmptySchema EXCEPT !.Type = <<tn>>]
RefTo(nm) == [EmptySchema EXCEPT !.Ref = <<"definitions", nm>>]
ArrayOf(s) ==
    [EmptySchema EXCEPT !.Type = <<array>>,
                        !.Items = [Schema |-> s, Schemas |-> << >>]]
MapOf(s) ==
    [EmptySchema EXCEPT !.Type = <<object>>,
                        !.AdditionalProperties = [Allows |-> TRUE, Schema |-> s]]
WithProperty(s, name, p) ==
    [s EXCEPT !.Properties = (name :> p) @@ s.Properties]
WithExtension(s, key, v) ==
    [s EXCEPT !.Extensions = (key :> v) @@ s.Extensions]

Struct == WithProperty(Prim(object), "id", Prim(integer))
Unresolvable == Prim("null")

\* what an array holds, a map maps to, or a property is
Elems == {Prim(number), Unresolvable, Struct,
          RefTo("a"), RefTo("b"), RefTo("missing")}

\* schemas that hold no reference
PlainSchemas ==
    {Prim(number), Unresolvable, Struct, EmptySchema,
     [Prim(str) EXCEPT !.Format = "date-time"],
     [Struct EXCEPT !.Discriminator = "kind"],
     [EmptySchema EXCEPT !.AllOf = <<Struct>>],
     [EmptySchema EXCEPT !.AllOf = <<Prim(number)>>],
     WithExtension(Prim(number), xGoName, StringValue("Mass")),
     Prim(array),
     [Prim(array) EXCEPT
         !.Items = [Schema |-> Nil, Schemas |-> <<Prim(str), Prim(number)>>],
         !.AdditionalItems = [Allows |-> TRUE, Schema |-> Nil]],
     WithExtension(ArrayOf(Prim(number)), xNullable, BoolValue(TRUE)),
     [ArrayOf(Struct) EXCEPT
         !.AdditionalItems = [Allows |-> FALSE, Schema |-> Prim(str)]],
     ArrayOf(Prim(number)), ArrayOf(Unresolvable),
     MapOf(Prim(number)), MapOf(Unresolvable), MapOf(Struct),
     [Struct EXCEPT !.AdditionalProperties =
                        [Allows |-> TRUE, Schema |-> Prim(number)]],
     [Struct EXCEPT !.AdditionalProperties =
                        [Allows |-> TRUE, Schema |-> Unresolvable]]}

\* schemas that refer to a definition: at the top, in the items, in the
\* additional properties, in a property
RefSchemas ==
    {RefTo(n) : n \in {"a", "b", "missing"}}
      \cup {WithExtension(RefTo("a"), xNullable, BoolValue(TRUE))}
      \cup {ArrayOf(RefTo(n)) : n \in {"a", "b", "missing"}}
      \cup {ArrayOf(WithExtension(RefTo("a"), xNullable, BoolValue(TRUE)))}
      \cup {MapOf(RefTo(n)) : n \in {"a", "b", "missing"}}
      \cup {[Struct EXCEPT !.AdditionalProperties =
                               [Allows |-> TRUE, Schema |-> RefTo("a")]]}
      \cup {WithProperty(Prim(object), "next", RefTo(n)) : n \in {"a", "b"}}

\* the bodies of the definitions
Bodies ==
    {Prim(number), Unresolvable, EmptySchema,
     [Struct EXCEPT !.Discriminator = "kind"],
     WithExtension(Prim(number), xGoName, StringValue("Mass")),
     WithExtension(ArrayOf(Prim(number)), xNullable, BoolValue(TRUE)),
     MapOf(Prim(number)),
     RefTo("b"),
     ArrayOf(RefTo("a")), ArrayOf(RefTo("b")),
     MapOf(RefTo("a")), MapOf(RefTo("b")),
     WithProperty(Prim(object), "next", RefTo("a")),
     WithProperty(Prim(object), "next", RefTo("b"))}

Docs == [{"a", "b"} -> Bodies]

PlainDoc == [n \in {"a", "b"} |-> Prim(number)]

\* (ModelsPackage, ModelName) of the resolver
Resolvers == {<<"", "weight">>, <<"models", "a">>, <<"models", "">>}

\* the force-nullable extensions
ExtensionSets ==
    {x @@ y : x \in {<<>>, xNullable :> BoolValue(TRUE),
                     xNullable :> BoolValue(FALSE),
                     xNullable :> StringValue("yes")},
              y \in {<<>>, xIsNullable :> BoolValue(TRUE),
                     xIsNullable :> BoolValue(FALSE)}}

\* numeric schemas with every facet the numeric rule reads
NumberSchemas ==
    {[EmptySchema EXCEPT !.Type = <<tn>>, !.Format = f, !.Default = d,
                         !.ReadOnly = ro, !.Minimum = mn, !.Maximum = mx,
                         !.Extensions = e] :
        tn \in {number, integer}, f \in {"", "int32", binary},
        d \in {<<>>, <<"0">>, <<"7">>}, ro \in BOOLEAN,
        mn \in {<<>>, <<-1>>, <<0>>, <<1>>}, mx \in {<<>>, <<-1>>, <<0>>, <<1>>},
        e \in ExtensionSets}

\* string schemas (typed or untyped) with every facet the string rules read
StringSchemas ==
    {[EmptySchema EXCEPT !.Type = tp, !.Format = f, !.Default = d,
                         !.ReadOnly = ro, !.MinLength = ml,
                         !.Extensions = e] :
        tp \in {<<>>, <<str>>}, f \in {"", "date-time", binary, "uuid"},
        d \in {<<>>, <<"\"\"">>, <<"\"x\"">>}, ro \in BOOLEAN,
        ml \in {<<>>, <<0>>, <<1>>},
        e \in ExtensionSets}

\* boolean, file and unknown-typed schemas
OtherSchemas ==
    {[EmptySchema EXCEPT !.Type = <<tn>>, !.Format = f, !.Default = d,
                         !.ReadOnly = ro, !.Properties = ps,
                         !.Extensions = e] :
        tn \in {boolean, file, "null"}, f \in {"", "date", binary},
        d \in {<<>>, <<"false">>, <<"true">>}, ro \in BOOLEAN,
        ps \in {<<>>, "id" :> Prim(integer)},
        e \in ExtensionSets}

-----------------------------------------------------------------------------
(* The machine *)

\* the flag pairs the caller resolves the root schema under, in this order
Flags == <<[isAnonymous |-> TRUE, isRequired |-> TRUE],
           [isAnonymous |-> TRUE, isRequired |-> FALSE],
           [isAnonymous |-> FALSE, isRequired |-> TRUE],
           [isAnonymous |-> FALSE, isRequired |-> FALSE]>>

Frame(schema, isAnonymous, isRequired) ==
    [schema |-> schema, isAnonymous |-> isAnonymous, isRequired |-> isRequired,
     pc |-> "ResolveSchema", result |-> ZeroResolvedType]

Init ==
    /\ \E r \in Resolvers :
         \/ /\ root \in {Nil} \cup PlainSchemas
            /\ t = [newTypeResolver(r[1], PlainDoc) EXCEPT !.ModelName = r[2]]
         \/ /\ root \in RefSchemas
            /\ \E doc \in Docs :
                 t = [newTypeResolver(r[1], doc) EXCEPT !.ModelName = r[2]]
         \/ /\ root \in NumberSchemas \cup StringSchemas \cup OtherSchemas
            /\ r = <<"", "weight">>
            /\ t = [newTypeResolver(r[1], PlainDoc) EXCEPT !.ModelName = r[2]]
    /\ calls = Flags
    /\ stack = << >>
    /\ ret = Nil
    /\ results = [f \in {Flags[i] : i \in DOMAIN Flags} |-> Nil]

Top == stack[Len(stack)]

\* the top frame is at the start of ResolveSchema
AtEntry == stack # << >> /\ Top.pc = "ResolveSchema"

\* the top frame has passed the reference and format branches
AtSwitch(tpe) ==
    /\ AtEntry
    /\ Top.schema # Nil
    /\ Top.schema.Ref = << >>
    /\ ~resolveFormat(t, Top.schema, Top.isAnonymous, Top.isRequired).returns
    /\ firstType(Top.schema) \in tpe

\* return out = [result, err] from the top frame to its caller
Return(out) ==
    /\ stack' = SubSeq(stack, 1, Len(stack) - 1)
    /\ ret' = [call |-> [schema |-> Top.schema, isAnonymous |-> Top.isAnonymous,
                         isRequired |-> Top.isRequired],
               result |-> out.result, err |-> out.err]
    /\ results' = IF Len(stack) = 1
                  THEN [results EXCEPT ![[isAnonymous |-> Top.isAnonymous,
                                          isRequired |-> Top.isRequired]] = <<out>>]
                  ELSE results
    /\ UNCHANGED <<t, root, calls>>

\* the top frame calls ResolveSchema(schema, isAnonymous, isRequired) and waits
\* at pc with its local result
Invoke(pc, result, schema, isAnonymous, isRequired) ==
    /\ Len(stack) < MaxDepth
    /\ stack' = [stack EXCEPT ![Len(stack)].pc = pc, ![Len(stack)].result = result]
                  \o <<Frame(schema, isAnonymous, isRequired)>>
    /\ UNCHANGED <<t, root, calls, ret, results>>

\* the caller resolves the root schema under the next pair of flags
Call ==
    /\ stack = << >>
    /\ calls # << >>
    /\ stack' = <<Frame(root, Head(calls).isAnonymous, Head(calls).isRequired)>>
    /\ calls' = Tail(calls)
    /\ UNCHANGED <<t, root, ret, results>>

ResolveNil ==
    /\ AtEntry
    /\ Top.schema = Nil
    /\ Return([result |-> [ZeroResolvedType EXCEPT !.IsInterface = TRUE,
                                                   !.GoType = iface],
               err |-> ""])

ResolveRefError ==
    /\ AtEntry
    /\ Top.schema # Nil
    /\ Top.schema.Ref # << >>
    /\ ResolveRef(t.Doc, Top.schema.Ref).err # ""
    /\ Return(returnsRef([result |-> ZeroResolvedType,
                          err |-> ResolveRef(t.Doc, Top.schema.Ref).err],
                         Top.isAnonymous))

ResolveRefCall ==
    /\ AtEntry
    /\ Top.schema # Nil
    /\ Top.schema.Ref # << >>
    /\ ResolveRef(t.Doc, Top.schema.Ref).err = ""
    /\ Invoke("resolveSchemaRef", ZeroResolvedType,
              ResolveRef(t.Doc, Top.schema.Ref).schema, FALSE, Top.isRequired)

ResolveRefReturn ==
    /\ stack # << >>
    /\ Top.pc = "resolveSchemaRef"
    /\ Return(returnsRef(resolveSchemaRef(t, Top.schema, Top.isRequired, ret),
                         Top.isAnonymous))

ResolveFormat ==
    /\ AtEntry
    /\ Top.schema # Nil
    /\ Top.schema.Ref = << >>
    /\ resolveFormat(t, Top.schema, Top.isAnonymous, Top.isRequired).returns
    /\ Return(resolveFormat(t, Top.schema, Top.isAnonymous, Top.isRequired))

ResolveArrayNoItems ==
    /\ AtSwitch({array})
    /\ IF Top.schema.Items = Nil
       THEN TRUE
       ELSE Len(Top.schema.Items.Schemas) > 0
    /\ Return([result |-> resolveArrayNoItems(t, Top.schema, Top.isAnonymous, FALSE),
               err |-> ""])

ResolveArrayCall ==
    /\ AtSwitch({array})
    /\ Top.schema.Items # Nil
    /\ Len(Top.schema.Items.Schemas) = 0
    /\ Invoke("resolveArray", resolveArrayHead(Top.schema),
              Top.schema.Items.Schema, TRUE, FALSE)

ResolveArrayReturn ==
    /\ stack # << >>
    /\ Top.pc = "resolveArray"
    /\ Return(resolveArrayItems(t, Top.result, Top.schema, Top.isAnonymous,
                                FALSE, ret))

ResolvePrimitive ==
    /\ AtSwitch({file, number, integer, boolean})
    /\ Return([result |-> resolvePrimitive(t, Top.schema, Top.isAnonymous,
                                           Top.isRequired),
               err |-> ""])

ResolveString ==
    /\ AtSwitch({str})
    /\ Return([result |-> resolveString(t, Top.schema, Top.isAnonymous,
                                        Top.isRequired),
               err |-> ""])

ResolveObjectAllOf ==
    /\ AtSwitch({object})
    /\ Len(Top.schema.AllOf) > 0
    /\ Return(objectReturn(Top.schema,
                  [result |-> resolveObjectAllOf(t, Top.schema, Top.isAnonymous),
                   err |-> ""]))

ResolveObjectCall ==
    /\ AtSwitch({object})
    /\ Len(Top.schema.AllOf) = 0
    /\ Top.schema.AdditionalProperties # Nil
    /\ Top.schema.AdditionalProperties.Schema # Nil
    /\ Invoke("resolveObject",
              resolveObjectProperties(t, Top.schema, Top.isAnonymous),
              Top.schema.AdditionalProperties.Schema, TRUE, FALSE)

ResolveObjectReturn ==
    /\ stack # << >>
    /\ Top.pc = "resolveObject"
    /\ Return(objectReturn(Top.schema,
                  resolveObjectAdditional(t, Top.result, Top.schema,
                                          Top.isAnonymous, ret)))

ResolveObjectPlain ==
    /\ AtSwitch({object})
    /\ Len(Top.schema.AllOf) = 0
    /\ IF Top.schema.AdditionalProperties = Nil
       THEN TRUE
       ELSE Top.schema.AdditionalProperties.Schema = Nil
    /\ Return(objectReturn(Top.schema,
                  [result |-> resolveObjectPlain(t, Top.schema, Top.isAnonymous),
                   err |-> ""]))

ResolveUnresolvable ==
    /\ AtSwitch({"null"})
    /\ Return(resolveUnresolvable(Top.schema, Top.isRequired))

Next ==
    \/ Call
    \/ ResolveNil
    \/ ResolveRefError
    \/ ResolveRefCall
    \/ ResolveRefReturn
    \/ ResolveFormat
    \/ ResolveArrayNoItems
    \/ ResolveArrayCall
    \/ ResolveArrayReturn
    \/ ResolvePrimitive
    \/ ResolveString
    \/ ResolveObjectAllOf
    \/ ResolveObjectCall
    \/ ResolveObjectReturn
    \/ ResolveObjectPlain
    \/ ResolveUnresolvable

Spec == Init /\ [][Next]_vars

-----------------------------------------------------------------------------
(* Vocabulary of the properties *)

\* a call has returned / has returned without error
Returned == ret # Nil
Succeeded == ret # Nil /\ ret.err = ""

\* the last return answers a call on a schema that is there and is no reference
OwnSchema == ret # Nil /\ ret.call.schema # Nil /\ ret.call.schema.Ref = << >>

FlagPair(a, r) == [isAnonymous |-> a, isRequired |-> r]

\* the caller holds the outcome of the root schema under (a, r), without error
Resolved(a, r) == results[FlagPair(a, r)] # Nil /\ results[FlagPair(a, r)][1].err = ""
Outcome(a, r) == results[FlagPair(a, r)][1].result

BaseShapes ==
    {"IsPrimitive", "IsArray", "IsTuple", "IsMap", "IsComplexObject", "IsInterface"}

\* the base shape flags a resolvedType has set
ShapeFlags(rt) == {f \in BaseShapes : rt[f]}

\* the format of the schema is in the format table
Recognised(schema) ==
    schema.Format # "" /\ RemoveDashes(schema.Format) \in DOMAIN typeMapping

\* the body of s holds a reference to definition n: in a declared property,
\* in the item schema, or in the additional-properties schema
RefersTo(s, n) ==
    \/ \E k \in DOMAIN s.Properties : s.Properties[k].Ref = <<"definitions", n>>
    \/ /\ s.Items # Nil
       /\ s.Items.Schema # Nil
       /\ s.Items.Schema.Ref = <<"definitions", n>>
    \/ /\ s.AdditionalProperties # Nil
       /\ s.AdditionalProperties.Schema # Nil
       /\ s.AdditionalProperties.Schema.Ref = <<"definitions", n>>

\* two frames are the same call of ResolveSchema: the function is
\* deterministic and reads nothing else, so the inner one repeats the outer
SameCall(f, g) ==
    /\ f.schema = g.schema
    /\ f.isAnonymous = g.isAnonymous
    /\ f.isRequired = g.isRequired

\* the force-nullable extension is set to false: x-nullable, or x-isnullable
\* when x-nullable is absent
ForcedNotNullable(ext) ==
    \/ /\ xNullable \in DOMAIN ext
       /\ ext[xNullable] = BoolValue(FALSE)
    \/ /\ xNullable \notin DOMAIN ext
       /\ xIsNullable \in DOMAIN ext
       /\ ext[xIsNullable] = BoolValue(FALSE)

\* an object schema with declared properties and an additional-properties
\* schema, and no composition
PropertiesAndAdditional(schema) ==
    /\ ~Recognised(schema)
    /\ firstType(schema) = object
    /\ Len(schema.AllOf) = 0
    /\ Cardinality(DOMAIN schema.Properties) > 0
    /\ schema.AdditionalProperties # Nil
    /\ schema.AdditionalProperties.Schema # Nil

\* an object schema with no declared shape at all
OpenRecord(schema) ==
    /\ ~Recognised(schema)
    /\ firstType(schema) = object
    /\ Len(schema.AllOf) = 0
    /\ Cardinality(DOMAIN schema.Properties) = 0
    /\ IF schema.AdditionalProperties = Nil THEN TRUE
       ELSE schema.AdditionalProperties.Schema = Nil

-----------------------------------------------------------------------------
(* The claims *)

\* C1 (cycle safety): in a document where the body of a refers to b and the
\* body of b refers to a, resolving the body of a or of b never re-enters a
\* call of ResolveSchema that is still active, i.e. the recursion ends.
C1_CycleSafety ==
    (/\ RefersTo(t.Doc["a"], "b")
     /\ RefersTo(t.Doc["b"], "a")
     /\ root \in {t.Doc["a"], t.Doc["b"]})
    => \A i, j \in DOMAIN stack : i < j => ~SameCall(stack[i], stack[j])

\* C2 (binary never nullable): every successful result for a non-reference
\* schema of format "binary" has IsNullable = false and IsStream = true,
\* whatever the type tag, the flags and the extensions.
C2_BinaryNeverNullable ==
    (Succeeded /\ OwnSchema /\ ret.call.schema.Format = binary)
    => (~ret.result.IsNullable /\ ret.result.IsStream)

\* C3 (no partial result with an error): a call that returns an error returns
\* the zero resolvedType with it.
C3_NoPartialResultWithError ==
    (Returned /\ ret.err # "") => ret.result = ZeroResolvedType

\* C4 (extension override precedence): a non-reference boolean, number,
\* integer or string schema, of any format but binary, whose force-nullable
\* extension is false resolves to IsNullable = false.  (Stated for schemas
\* without properties or composition, the plain case of the claim.)
C4_ExtensionOverride ==
    (/\ Succeeded
     /\ OwnSchema
     /\ Len(ret.call.schema.Type) > 0
     /\ ret.call.schema.Type[1] \in {boolean, number, integer, str}
     /\ RemoveDashes(ret.call.schema.Format) # binary
     /\ ret.call.schema.Properties = << >>
     /\ ret.call.schema.AllOf = << >>
     /\ ForcedNotNullable(ret.call.schema.Extensions))
    => ~ret.result.IsNullable

\* C5 as claimed (alias naming): with a model name set, a non-reference schema
\* whose resolved shape is no structured object -- open records included --
\* resolves, when named, to an alias carrying the model's Go name over the
\* underlying type name, and, when anonymous, to the bare underlying type.
C5_AliasNaming_Claimed ==
    \A r \in BOOLEAN :
        (/\ root # Nil
         /\ root.Ref = << >>
         /\ t.ModelName # ""
         /\ Resolved(FALSE, r)
         /\ Resolved(TRUE, r)
         /\ ~Outcome(TRUE, r).IsComplexObject)
        => /\ Outcome(FALSE, r).IsAliased
           /\ Outcome(FALSE, r).GoType = goTypeName(t, t.ModelName)
           /\ Outcome(FALSE, r).AliasedType = Outcome(TRUE, r).GoType
           /\ ~Outcome(TRUE, r).IsAliased

\* C5 as amended: the same for every shape that is neither a structured object
\* nor an open record (IsInterface); an open record is never aliased.
C5_AliasNaming ==
    \A r \in BOOLEAN :
        (/\ root # Nil
         /\ root.Ref = << >>
         /\ t.ModelName # ""
         /\ Resolved(FALSE, r)
         /\ Resolved(TRUE, r)
         /\ ~Outcome(TRUE, r).IsComplexObject)
        => IF Outcome(TRUE, r).IsInterface
           THEN /\ ~Outcome(FALSE, r).IsAliased
                /\ Outcome(FALSE, r).GoType = iface
                /\ Outcome(TRUE, r).GoType = iface
           ELSE /\ Outcome(FALSE, r).IsAliased
                /\ Outcome(FALSE, r).GoType = goTypeName(t, t.ModelName)
                /\ Outcome(FALSE, r).AliasedType = Outcome(TRUE, r).GoType
                /\ ~Outcome(TRUE, r).IsAliased

\* C5 witness: a named array of numbers has been resolved both ways and the
\* named result is the alias of "[]float64".
C5_Witness ==
    /\ root = ArrayOf(Prim(number))
    /\ t.ModelName = "weight"
    /\ Resolved(FALSE, TRUE)
    /\ Resolved(TRUE, TRUE)
    /\ Outcome(FALSE, TRUE).IsAliased
    /\ Outcome(FALSE, TRUE).GoType = "Weight"
    /\ Outcome(FALSE, TRUE).AliasedType = "[]float64"
    /\ Outcome(TRUE, TRUE).GoType = "[]float64"

\* C6 as claimed (exactly one shape category): every successful result has
\* exactly one base shape flag set.
C6_OneShape_Claimed ==
    Succeeded => Cardinality(ShapeFlags(ret.result)) = 1

\* C6 as amended: every successful result for a schema that is no reference
\* has exactly one base shape flag set, except that a binary format and a file
\* type set none and an open record sets both IsMap and IsInterface; a result
\* for a reference resolved as a named type has IsComplexObject set and IsMap
\* clear, on top of the flags of the referenced shape.
C6_OneShape ==
    Succeeded =>
        IF ret.call.schema = Nil
        THEN ShapeFlags(ret.result) = {"IsInterface"}
        ELSE IF ret.call.schema.Ref # << >>
        THEN ~ret.call.isAnonymous =>
                (ret.result.IsComplexObject /\ ~ret.result.IsMap)
        ELSE IF Recognised(ret.call.schema)
        THEN IF RemoveDashes(ret.call.schema.Format) = binary
             THEN ShapeFlags(ret.result) = {}
             ELSE ShapeFlags(ret.result) = {"IsPrimitive"}
        ELSE IF firstType(ret.call.schema) = file
        THEN ShapeFlags(ret.result) = {}
        ELSE IF OpenRecord(ret.call.schema)
        THEN ShapeFlags(ret.result) = {"IsMap", "IsInterface"}
        ELSE Cardinality(ShapeFlags(ret.result)) = 1

\* C6 witness: an object with declared properties and an additional-properties
\* schema has been resolved, and is a structured object only.
C6_Witness ==
    /\ Succeeded
    /\ OwnSchema
    /\ PropertiesAndAdditional(ret.call.schema)
    /\ ShapeFlags(ret.result) = {"IsComplexObject"}

\* C7 (an array is never nullable): every successful result with IsArray set
\* has IsNullable = false, resolved directly or through a reference.
C7_ArrayNeverNullable ==
    (Succeeded /\ ret.result.IsArray) => ~ret.result.IsNullable

\* C8 (file is never nullable): every successful result for a non-reference
\* schema of type "file" without a recognised format has IsNullable = false.
C8_FileNeverNullable ==
    (/\ Succeeded
     /\ OwnSchema
     /\ ~Recognised(ret.call.schema)
     /\ firstType(ret.call.schema) = file)
    => ~ret.result.IsNullable

\* C9 (declared properties win): an object schema with declared properties and
\* an additional-properties schema resolves to a structured object that is no
\* map, and the synthesized map name is not its GoType.
C9_DeclaredPropertiesWin ==
    (/\ Succeeded
     /\ OwnSchema
     /\ PropertiesAndAdditional(ret.call.schema))
    => /\ ret.result.IsComplexObject
       /\ ~ret.result.IsMap
       /\ ret.result.GoType \notin
             {"map[string]" \o ret.result.ElemType.GoType,
              "map[string]*" \o ret.result.ElemType.GoType}

\* C10 (a reference's nullability ignores the referring site): for a root
\* that is a reference into the document, the results under required = true
\* and required = false have the same IsNullable, which is the referenced
\* schema's own verdict, and HasDiscriminator tells whether the referenced
\* schema declares a discriminator.
C10_RefNullability ==
    \A a \in BOOLEAN :
        (/\ root # Nil
         /\ root.Ref # << >>
         /\ ResolveRef(t.Doc, root.Ref).err = ""
         /\ Resolved(a, TRUE)
         /\ Resolved(a, FALSE))
        => LET ref == ResolveRef(t.Doc, root.Ref).schema IN
           /\ Outcome(a, TRUE).IsNullable = Outcome(a, FALSE).IsNullable
           /\ Outcome(a, TRUE).IsNullable =
                 (\/ Cardinality(DOMAIN ref.Properties) > 0
                  \/ Len(ref.AllOf) > 0
                  \/ \E k \in {xNullable, xIsNullable} :
                        /\ k \in DOMAIN ref.Extensions
                        /\ ref.Extensions[k] = BoolValue(TRUE))
           /\ \A r \in BOOLEAN :
                 Outcome(a, r).HasDiscriminator = (ref.Discriminator # "")

\* C10 witness: a reference to a numeric definition (whose own result is
\* nullable exactly when required) has been resolved under both required
\* flags, and neither result is nullable.
C10_Witness ==
    /\ root = RefTo("a")
    /\ t.Doc["a"] = Prim(number)
    /\ Resolved(TRUE, TRUE)
    /\ Resolved(TRUE, FALSE)
    /\ ~Outcome(TRUE, TRUE).IsNullable
    /\ ~Outcome(TRUE, FALSE).IsNullable

====
